---- MODULE Spec2Model ----
(***************************************************************************)
(* Model of the news-parser article resolution pipeline                    *)
(* (core/base_parser.py, core/lenta_parser.py, core/ria_parser.py).        *)
(*                                                                         *)
(* A Python str is a sequence of one-character strings.  An Optional[str]  *)
(* is a record [ok, val]: None is [ok |-> FALSE, val |-> <<>>].            *)
(***************************************************************************)
EXTENDS Integers, Sequences, FiniteSets, TLC

VARIABLES
    i_parts,    \* identifier extraction: the pieces the input URL is built from
    i_src,      \* identifier extraction: which parser's _extract_news_id ran ("none" before)
    i_out,      \* identifier extraction: the value returned
    t_in,       \* text resolution: source, URL and what the remote servers answer
    t_out,      \* text resolution: outcome of the _extract_full_text call
    r_now,      \* rate limiter: the monotonic clock, in ticks
    r_limiter,  \* rate limiter: state of the @limits decorator [last_reset, num_calls]
    r_pc,       \* rate limiter: "call" (caller about to call), "sleeping", "off"
    r_sleep,    \* rate limiter: period_remaining carried by the RateLimitException
    r_exec,     \* rate limiter: clock readings at which the wrapped body ran
    p_source,   \* pipeline: source_name of the parser whose fetch_news runs
    p_tz,       \* pipeline: UTC offset of the machine's local time zone, in hours
    p_pc,       \* pipeline: "channel" (top of the channel loop), "entries", "returned", "off"
    p_ch,       \* pipeline: position in rss_channels of the channel being processed
    p_hist,     \* pipeline: per channel reached [status, feed_len, consumed, malformed, emitted]
    p_entry,    \* pipeline: the feed entry last handed to _parse_rss_item
    news_items, \* pipeline: the list fetch_news builds and returns
    m_parsers,  \* main: source_name of the parsers of the list, in list order
    m_pc,       \* main: "loop" (top of the for loop), "run" (inside parser.run), "done", "off"
    m_idx,      \* main: position in the list of the parser being run
    m_started,  \* main: source_name of the parsers whose run was called, in call order
    m_results,  \* main: the results dict, source_name -> [success, output_path]
    m_files     \* main: source_name of the parsers whose output file was written

idvars == <<i_parts, i_src, i_out>>

textvars == <<t_in, t_out>>

ratevars == <<r_now, r_limiter, r_pc, r_sleep, r_exec>>

pipevars == <<p_source, p_tz, p_pc, p_ch, p_hist, p_entry, news_items>>

mainvars == <<m_parsers, m_pc, m_idx, m_started, m_results, m_files>>

vars == <<i_parts, i_src, i_out, t_in, t_out, r_now, r_limiter, r_pc, r_sleep, r_exec,
          p_source, p_tz, p_pc, p_ch, p_hist, p_entry, news_items,
          m_parsers, m_pc, m_idx, m_started, m_results, m_files>>

----------------------------------------------------------------------------
(* Bounds *)

\* number of directory segments in front of the last path segment
MaxDirs == 2

\* number of path segments of the URL whose text is resolved
MaxSegs == 3

\* clock ticks in one second
TicksPerSecond == 2

\* number of consecutive _make_api_request calls the caller makes
NumCalls == 10

\* the caller makes no pause once the clock has reached this reading
MaxTime == 6

\* number of channels in rss_channels
NumChannels == 2

\* number of entries a feed can hold
MaxFeedLen == 3

\* system.lookback_hours of the configuration
LookbackHours == 24

\* the hour at which fetch_news runs
NowHour == 100

----------------------------------------------------------------------------
(* Python str operations *)

Digit == {"0", "1", "2", "3", "4", "5", "6", "7", "8", "9"}

Letter == {"a", "b", "c", "d", "e", "f", "g", "h", "i", "j", "k", "l", "m",
           "n", "o", "p", "q", "r", "s", "t", "u", "v", "w", "x", "y", "z"}

None == [ok |-> FALSE, val |-> <<>>]

Some(s) == [ok |-> TRUE, val |-> s]

\* index of the first character of s that is in cs, Len(s) + 1 when there is none
IndexOfFirst(s, cs) ==
    IF \E i \in 1..Len(s) : s[i] \in cs
    THEN CHOOSE i \in 1..Len(s) : s[i] \in cs /\ \A j \in 1..(i - 1) : s[j] \notin cs
    ELSE Len(s) + 1

\* s.split(c)[0]
Before(s, c) == SubSeq(s, 1, IndexOfFirst(s, {c}) - 1)

\* s[n:]
From(s, n) == SubSeq(s, n, Len(s))

\* s.rstrip(c)
RStrip(s, c) ==
    LET keep == {i \in 0..Len(s) : i = 0 \/ s[i] # c}
        n == CHOOSE i \in keep : \A j \in keep : j <= i
    IN  SubSeq(s, 1, n)

\* s.endswith(suf)
EndsWith(s, suf) ==
    /\ Len(suf) <= Len(s)
    /\ SubSeq(s, Len(s) - Len(suf) + 1, Len(s)) = suf

\* pat in s
Contains(s, pat) ==
    \E i \in 1..(Len(s) - Len(pat) + 1) : SubSeq(s, i, i + Len(pat) - 1) = pat

\* s.split(c)
RECURSIVE Split(_, _)
Split(s, c) ==
    LET k == IndexOfFirst(s, {c})
    IN  IF k > Len(s) THEN <<s>>
        ELSE <<SubSeq(s, 1, k - 1)>> \o Split(From(s, k + 1), c)

\* first index of the maximal run of digits that ends at position j (s[j] is a digit)
RunStart(s, j) ==
    CHOOSE i \in 1..j :
        /\ \A k \in i..j : s[k] \in Digit
        /\ (i = 1 \/ s[i - 1] \notin Digit)

\* last index of the maximal run of digits that starts at position i (s[i] is a digit)
RunEnd(s, i) ==
    CHOOSE j \in i..Len(s) :
        /\ \A k \in i..j : s[k] \in Digit
        /\ (j = Len(s) \/ s[j + 1] \notin Digit)

DotHtml == <<".", "h", "t", "m", "l">>

----------------------------------------------------------------------------
(* urllib.parse.urlparse(url).path *)

SchemeChars == Letter \cup Digit \cup {"+", "-", "."}

UrlPath(url) ==
    LET colon == IndexOfFirst(url, {":"})
        hasScheme == /\ colon > 1
                     /\ colon <= Len(url)
                     /\ url[1] \in Letter
                     /\ \A k \in 1..(colon - 1) : url[k] \in SchemeChars
        rest == IF hasScheme THEN From(url, colon + 1) ELSE url
        hasNetloc == Len(rest) >= 2 /\ SubSeq(rest, 1, 2) = <<"/", "/">>
        afterNetloc == IF hasNetloc
                       THEN LET r == From(rest, 3)
                            IN  From(r, IndexOfFirst(r, {"/", "?", "#"}))
                       ELSE rest
    IN  Before(Before(afterNetloc, "#"), "?")

----------------------------------------------------------------------------
(* RiaParser._extract_news_id *)

\* the regular expressions of the patterns list, in list order.  An anchored
\* pattern is  lead(\d+)ext$  or  lead(\d+)/?$ ; the last one is (\d{8,}).
RiaPatternsFallbackFirst ==
    << [kind |-> "run8"],
       [kind |-> "anchored", lead |-> "-", ext |-> DotHtml, optslash |-> FALSE],
       [kind |-> "anchored", lead |-> "-", ext |-> <<>>, optslash |-> TRUE],
       [kind |-> "anchored", lead |-> "/", ext |-> DotHtml, optslash |-> FALSE],
       [kind |-> "anchored", lead |-> "/", ext |-> <<>>, optslash |-> TRUE],
       [kind |-> "anchored", lead |-> "/", ext |-> <<>>, optslash |-> FALSE],
       [kind |-> "anchored", lead |-> "_", ext |-> DotHtml, optslash |-> FALSE] >>

RiaPatterns ==
    << [kind |-> "anchored", lead |-> "-", ext |-> DotHtml, optslash |-> FALSE],
       [kind |-> "anchored", lead |-> "-", ext |-> <<>>, optslash |-> TRUE],
       [kind |-> "anchored", lead |-> "/", ext |-> DotHtml, optslash |-> FALSE],
       [kind |-> "anchored", lead |-> "/", ext |-> <<>>, optslash |-> TRUE],
       [kind |-> "anchored", lead |-> "/", ext |-> <<>>, optslash |-> FALSE],
       [kind |-> "anchored", lead |-> "_", ext |-> DotHtml, optslash |-> FALSE],
       [kind |-> "run8"] >>

\* re.search(lead(\d+)ext$, s) / re.search(lead(\d+)/?$, s): group 1, or None
SearchAnchored(p, s) ==
    IF ~EndsWith(s, p.ext) THEN None
    ELSE LET noext == SubSeq(s, 1, Len(s) - Len(p.ext))
             body == IF p.optslash /\ EndsWith(noext, <<"/">>)
                     THEN SubSeq(noext, 1, Len(noext) - 1)
                     ELSE noext
             j == Len(body)
         IN  IF j < 2 \/ body[j] \notin Digit THEN None
             ELSE LET i == RunStart(body, j)
                  IN  IF i >= 2 /\ body[i - 1] = p.lead
                      THEN Some(SubSeq(body, i, j))
                      ELSE None

\* re.search((\d{8,}), s): the leftmost run of at least 8 digits, taken greedily
SearchRun8(s) ==
    LET starts == {i \in 1..Len(s) :
                      /\ s[i] \in Digit
                      /\ (i = 1 \/ s[i - 1] \notin Digit)
                      /\ RunEnd(s, i) - i + 1 >= 8}
    IN  IF starts = {} THEN None
        ELSE LET i == CHOOSE a \in starts : \A b \in starts : a <= b
             IN  Some(SubSeq(s, i, RunEnd(s, i)))

Search(p, s) == IF p.kind = "run8" THEN SearchRun8(s) ELSE SearchAnchored(p, s)

\* clean_url = url.split('?')[0].split('#')[0].rstrip('/')
RiaCleanUrl(url) == RStrip(Before(Before(url, "?"), "#"), "/")

\* the for loop over patterns: the first pattern that matches wins, else None
RiaExtractNewsId(url) ==
    LET clean == RiaCleanUrl(url)
        hits == {k \in 1..Len(RiaPatterns) : Search(RiaPatterns[k], clean).ok}
    IN  IF hits = {} THEN None
        ELSE Search(RiaPatterns[CHOOSE k \in hits : \A m \in hits : k <= m], clean)

----------------------------------------------------------------------------
(* LentaParser._extract_news_id *)

\* path.split('/')[-2] if path.endswith('/') else path.split('/')[-1]
LentaSegment(path) ==
    LET segs == Split(path, "/")
    IN  IF EndsWith(path, <<"/">>) THEN segs[Len(segs) - 1] ELSE segs[Len(segs)]

LentaExtractNewsId(url) == Some(LentaSegment(UrlPath(url)))

----------------------------------------------------------------------------
(* Input URLs of the identifier extraction, built from pieces:             *)
(*   origin dirs "/" name sep digits ext trail suffix                      *)

RECURSIVE Join(_)
Join(ss) == IF ss = <<>> THEN <<>> ELSE <<"/">> \o Head(ss) \o Join(Tail(ss))

Https == <<"h", "t", "t", "p", "s", ":", "/", "/">>

RiaHost == <<"r", "i", "a", ".", "r", "u">>

LentaHost == <<"l", "e", "n", "t", "a", ".", "r", "u">>

Origins == { <<>>, Https \o RiaHost, Https \o LentaHost }

DirSegs == { <<"n", "e", "w", "s">>,
             <<"2", "0", "2", "4", "0", "5", "1", "5">>,
             <<"0", "5">> }

Dirs == UNION { [1..n -> DirSegs] : n \in 0..MaxDirs }

Names == { <<>>, <<"t">>, <<"c", "o", "f", "f", "e", "e">> }

Seps == { <<>>, <<"-">>, <<"_">> }

DigitStrings == { <<>>, <<"7">>, <<"1", "2", "3", "4", "5", "6">>,
                  <<"2", "0", "2", "4", "0", "5", "1", "6">> }

Exts == { <<>>, DotHtml }

Trails == { <<>>, <<"/">>, <<"/", "/">> }

Suffixes == { <<>>, <<"?", "q", "=", "1">>, <<"#", "f">>,
              <<"?", "q", "=", "1", "#", "f">>, <<"#", "f", "?", "q">> }

Parts == [origin : Origins, dirs : Dirs, name : Names, sep : Seps,
          digits : DigitStrings, ext : Exts, trail : Trails, suffix : Suffixes]

LastSegment(p) == p.name \o p.sep \o p.digits \o p.ext

Assemble(p) ==
    p.origin \o Join(p.dirs) \o <<"/">> \o LastSegment(p) \o p.trail \o p.suffix

----------------------------------------------------------------------------
(* Specification of the identifier extraction *)

NoParts == [origin |-> <<>>, dirs |-> <<>>, name |-> <<>>, sep |-> <<>>,
            digits |-> <<>>, ext |-> <<>>, trail |-> <<>>, suffix |-> <<>>]

IdIdle ==
    /\ i_parts = NoParts
    /\ i_src = "off"
    /\ i_out = None

TextIdle ==
    /\ t_in = [source |-> "off"]
    /\ t_out = [done |-> FALSE, text |-> <<>>, raised |-> FALSE, requests |-> <<>>]

RateIdle ==
    /\ r_now = 0
    /\ r_limiter = [last_reset |-> 0, num_calls |-> 0]
    /\ r_pc = "off"
    /\ r_sleep = 0
    /\ r_exec = <<>>

NoEntry == [link |-> None, title |-> None, published |-> [ok |-> FALSE, val |-> 0]]

PipeIdle ==
    /\ p_source = "off"
    /\ p_tz = 0
    /\ p_pc = "off"
    /\ p_ch = 0
    /\ p_hist = <<>>
    /\ p_entry = [seen |-> FALSE, entry |-> NoEntry, emitted |-> FALSE]
    /\ news_items = <<>>

MainIdle ==
    /\ m_parsers = <<>>
    /\ m_pc = "off"
    /\ m_idx = 0
    /\ m_started = <<>>
    /\ m_results = <<>>
    /\ m_files = {}

InitId ==
    /\ i_parts \in Parts
    /\ i_src = "none"
    /\ i_out = None
    /\ TextIdle
    /\ RateIdle
    /\ PipeIdle
    /\ MainIdle

RiaExtractId ==
    /\ i_src = "none"
    /\ i_src' = "ria.ru"
    /\ i_out' = RiaExtractNewsId(Assemble(i_parts))
    /\ UNCHANGED <<i_parts, textvars, ratevars, pipevars, mainvars>>

LentaExtractId ==
    /\ i_src = "none"
    /\ i_src' = "lenta.ru"
    /\ i_out' = LentaExtractNewsId(Assemble(i_parts))
    /\ UNCHANGED <<i_parts, textvars, ratevars, pipevars, mainvars>>

NextId == RiaExtractId \/ LentaExtractId

SpecId == InitId /\ [][NextId]_vars

----------------------------------------------------------------------------
(* Properties of the identifier extraction *)

HasEightDigitDir(p) == \E k \in 1..Len(p.dirs) : Len(p.dirs[k]) >= 8 /\ p.dirs[k][1] \in Digit

\* C5: for the RIA source, whatever the query string or fragment, a URL
\* .../title-<digits>.html and a URL .../title-<digits>/ yield <digits>, and an
\* earlier rule of the list wins over the later "run of 8 digits" rule.
RiaIdOfTitleForms ==
    i_src = "ria.ru" =>
        /\ (/\ i_parts.sep = <<"-">> /\ i_parts.digits # <<>>
            /\ i_parts.ext = DotHtml /\ i_parts.trail = <<>>)
               => i_out = Some(i_parts.digits)
        /\ (/\ i_parts.sep = <<"-">> /\ i_parts.digits # <<>>
            /\ i_parts.ext = <<>> /\ i_parts.trail = <<"/">>)
               => i_out = Some(i_parts.digits)
        /\ (/\ i_parts.sep = <<"_">> /\ i_parts.digits # <<>>
            /\ i_parts.ext = DotHtml /\ i_parts.trail = <<>>)
               => i_out = Some(i_parts.digits)

\* a title-<digits>.html URL below an 8-digit date directory, with a query
\* string and a fragment, has yielded the digits of the title
RiaIdOfTitleFormsWitness ==
    /\ i_src = "ria.ru"
    /\ i_parts.sep = <<"-">> /\ i_parts.ext = DotHtml /\ i_parts.trail = <<>>
    /\ i_parts.digits = <<"1", "2", "3", "4", "5", "6">>
    /\ HasEightDigitDir(i_parts)
    /\ i_parts.suffix = <<"?", "q", "=", "1", "#", "f">>
    /\ i_out = Some(<<"1", "2", "3", "4", "5", "6">>)

\* the path segments the URL was built from, in order
BuiltSegments(p) == p.dirs \o <<LastSegment(p)>>

HasNonEmptySegment(p) == \E k \in 1..Len(BuiltSegments(p)) : BuiltSegments(p)[k] # <<>>

LastNonEmptySegment(p) ==
    LET segs == BuiltSegments(p)
        k == CHOOSE i \in 1..Len(segs) :
                 segs[i] # <<>> /\ \A j \in (i + 1)..Len(segs) : segs[j] = <<>>
    IN  segs[k]

\* C6: for the Lenta source the identifier is the last non-empty path segment
\* of the URL, whatever the query string or fragment.
LentaIdIsLastNonEmptySegment ==
    (i_src = "lenta.ru" /\ HasNonEmptySegment(i_parts))
        => i_out = Some(LastNonEmptySegment(i_parts))

----------------------------------------------------------------------------
(* Remote servers: what a GET of the structured endpoint and of the        *)
(* article page can produce                                                *)

Hello == <<"H", "e", "l", "l", "o">>

\* the value response.json() decodes to: its Python type, its truth value and,
\* for an object, the value of data.get('text')
JsonValues ==
    { [kind |-> "object", truthy |-> TRUE,  text |-> Some(Hello)],
      [kind |-> "object", truthy |-> TRUE,  text |-> Some(<<>>)],
      [kind |-> "object", truthy |-> TRUE,  text |-> None],
      [kind |-> "object", truthy |-> FALSE, text |-> None],
      [kind |-> "array",  truthy |-> TRUE,  text |-> None],
      [kind |-> "array",  truthy |-> FALSE, text |-> None],
      [kind |-> "string", truthy |-> TRUE,  text |-> None],
      [kind |-> "null",   truthy |-> FALSE, text |-> None] }

PyNone == [kind |-> "null", truthy |-> FALSE, text |-> None]

\* answer of the structured endpoint
ApiResponses ==
    { [status |-> "network_error", decodes |-> FALSE, value |-> PyNone],
      [status |-> "http_error", decodes |-> FALSE, value |-> PyNone],
      [status |-> "ok", decodes |-> FALSE, value |-> PyNone] }
    \cup { [status |-> "ok", decodes |-> TRUE, value |-> v] : v \in JsonValues }

\* the <p> elements of one container <div>, as their text
ParagraphLists ==
    { <<>>,
      << <<" ", "H", "i", " ">> >>,
      << <<"H", "i">>, <<" ">>, <<"a">> >> }

NoDiv == [ok |-> FALSE, val |-> <<>>]

OptParagraphs == {NoDiv} \cup { [ok |-> TRUE, val |-> ps] : ps \in ParagraphLists }

\* an HTML document: for each class of container the first <div> of that class
PageBodies == [article__body : OptParagraphs, article__text : OptParagraphs,
               topic_body__content : OptParagraphs]

EmptyBody == [article__body |-> NoDiv, article__text |-> NoDiv, topic_body__content |-> NoDiv]

\* answer of the article page
PageResponses ==
    { [status |-> "network_error", body |-> EmptyBody] }
    \cup { [status |-> st, body |-> b] : st \in {"ok", "http_error"}, b \in PageBodies }

----------------------------------------------------------------------------
(* Text of the paragraphs *)

\* s.strip()
Strip(s) ==
    LET ink == {i \in 1..Len(s) : s[i] # " "}
    IN  IF ink = {} THEN <<>>
        ELSE SubSeq(s, CHOOSE i \in ink : \A j \in ink : i <= j,
                       CHOOSE i \in ink : \A j \in ink : j <= i)

\* ' '.join(ss)
RECURSIVE JoinSpace(_)
JoinSpace(ss) ==
    IF ss = <<>> THEN <<>>
    ELSE IF Len(ss) = 1 THEN ss[1]
    ELSE ss[1] \o <<" ">> \o JoinSpace(Tail(ss))

\* [f(x) for x in ss]
MapStrip(ss) == [k \in 1..Len(ss) |-> Strip(ss[k])]

\* [x for x in ss if x]
RECURSIVE NonEmpty(_)
NonEmpty(ss) ==
    IF ss = <<>> THEN <<>>
    ELSE IF Head(ss) = <<>> THEN NonEmpty(Tail(ss))
    ELSE <<Head(ss)>> \o NonEmpty(Tail(ss))

----------------------------------------------------------------------------
(* Outbound requests, as they are issued *)

\* self._make_api_request(api_url): through @sleep_and_retry @limits, with timeout
ApiRequest == [target |-> "api", via |-> "_make_api_request",
               rate_limited |-> TRUE, timeout |-> TRUE]

\* self.session.get(url): no limiter, no timeout argument
RiaPageRequest == [target |-> "page", via |-> "session.get",
                   rate_limited |-> FALSE, timeout |-> FALSE]

\* requests.get(url, headers=..., timeout=...)
LentaPageRequest == [target |-> "page", via |-> "requests.get",
                     rate_limited |-> FALSE, timeout |-> TRUE]

----------------------------------------------------------------------------
(* RiaParser._make_api_request, _extract_full_text, _extract_full_text_fallback *)

\* the body of _make_api_request: RequestException (connection, timeout,
\* raise_for_status) and ValueError (response.json()) are caught, None returned
MakeApiRequest(api) ==
    IF api.status # "ok" THEN PyNone
    ELSE IF ~api.decodes THEN PyNone
    ELSE api.value

\* any(x in url for x in ["/video/", "/gallery/", "/infographics/"])
RiaNonArticleMarkersNoGallery ==
    { <<"/", "v", "i", "d", "e", "o", "/">>,
      <<"/", "i", "n", "f", "o", "g", "r", "a", "p", "h", "i", "c", "s", "/">> }

RiaNonArticleMarkers ==
    { <<"/", "v", "i", "d", "e", "o", "/">>,
      <<"/", "g", "a", "l", "l", "e", "r", "y", "/">>,
      <<"/", "i", "n", "f", "o", "g", "r", "a", "p", "h", "i", "c", "s", "/">> }

RiaIsNonArticle(url) == \E m \in RiaNonArticleMarkers : Contains(url, m)

\* soup.find('div', class_='article__body') or soup.find('div', class_='article__text')
RiaFindBody(body) ==
    IF body.article__body.ok THEN body.article__body ELSE body.article__text

\* _extract_full_text_fallback: the response is parsed whatever its status;
\* an exception of session.get is caught and gives ""
RiaExtractFullTextFallback(page) ==
    IF page.status = "network_error" THEN <<>>
    ELSE LET div == RiaFindBody(page.body)
         IN  IF ~div.ok THEN <<>>
             ELSE JoinSpace(NonEmpty(MapStrip(div.val)))

\* data and data.get('text'): does the structured answer carry a text
RiaStructuredNeverYields(data) == FALSE

RiaStructuredYields(data) == data.truthy /\ data.text.ok /\ data.text.val # <<>>

\* _extract_full_text: [text, raised, requests]; raised is an exception that
\* leaves the method (data.get on a value that is not a dict)
RiaExtractFullText(url, api, page) ==
    IF RiaIsNonArticle(url)
    THEN [text |-> <<>>, raised |-> FALSE, requests |-> <<>>]
    ELSE LET article_id == RiaExtractNewsId(url)
             asked == article_id.ok /\ article_id.val # <<>>
             data == MakeApiRequest(api)
             sent == IF asked THEN <<ApiRequest>> ELSE <<>>
         IN  IF asked /\ data.truthy /\ data.kind # "object"
             THEN [text |-> <<>>, raised |-> TRUE, requests |-> sent]
             ELSE IF asked /\ RiaStructuredYields(data)
             THEN [text |-> data.text.val, raised |-> FALSE, requests |-> sent]
             ELSE [text |-> RiaExtractFullTextFallback(page), raised |-> FALSE,
                   requests |-> Append(sent, RiaPageRequest)]

----------------------------------------------------------------------------
(* LentaParser._is_news_url, _extract_full_text *)

LentaNewsMarker == LentaHost \o <<"/", "n", "e", "w", "s">>

LentaNonArticleMarkers ==
    { <<"/", "v", "i", "d", "e", "o", "/">>, <<"/", "p", "h", "o", "t", "o", "/">> }

\* "lenta.ru/news" in url and not any(x in url for x in ['/video/', '/photo/'])
LentaIsNewsUrl(url) ==
    /\ Contains(url, LentaNewsMarker)
    /\ ~\E m \in LentaNonArticleMarkers : Contains(url, m)

\* the try block of _extract_full_text: raise_for_status, then the container
\* div.topic-body__content and the join of all its stripped paragraphs
LentaFetchText(page) ==
    IF page.status # "ok" THEN <<>>
    ELSE LET div == page.body.topic_body__content
         IN  IF ~div.ok THEN <<>>
             ELSE JoinSpace(MapStrip(div.val))

LentaExtractFullText(url, page) ==
    IF ~LentaIsNewsUrl(url)
    THEN [text |-> <<>>, raised |-> FALSE, requests |-> <<>>]
    ELSE [text |-> LentaFetchText(page), raised |-> FALSE,
          requests |-> <<LentaPageRequest>>]

----------------------------------------------------------------------------
(* Specification of the text resolution: one _extract_full_text call       *)

\* URLs  https://<host>/<seg>/.../<seg><tail>
TextSegs == { <<"n", "e", "w", "s">>, <<"v", "i", "d", "e", "o">>,
              <<"g", "a", "l", "l", "e", "r", "y">>,
              <<"i", "n", "f", "o", "g", "r", "a", "p", "h", "i", "c", "s">>,
              <<"p", "h", "o", "t", "o">>,
              <<"t", "-", "1", "2", "3", "4", "5", "6", ".", "h", "t", "m", "l">>,
              <<"c", "o", "f", "f", "e", "e">> }

LeafSegs == { <<"t", "-", "1", "2", "3", "4", "5", "6", ".", "h", "t", "m", "l">>,
              <<"c", "o", "f", "f", "e", "e">> }

TextPaths == { ss \in UNION { [1..n -> TextSegs] : n \in 1..MaxSegs } :
                 /\ ss[Len(ss)] \in LeafSegs
                 /\ \A k \in 1..(Len(ss) - 1) : ss[k] \notin LeafSegs }

HostOf(source) == IF source = "ria.ru" THEN RiaHost ELSE LentaHost

TailOf(source) == IF source = "ria.ru" THEN <<>> ELSE <<"/">>

TextUrl(in) == Https \o HostOf(in.source) \o Join(in.segs) \o TailOf(in.source)

TextInputs ==
    [source : {"ria.ru"}, segs : TextPaths, api : ApiResponses, page : PageResponses]
    \cup [source : {"lenta.ru"}, segs : TextPaths,
          api : {[status |-> "network_error", decodes |-> FALSE, value |-> PyNone]},
          page : PageResponses]

NotCalled == [done |-> FALSE, text |-> <<>>, raised |-> FALSE, requests |-> <<>>]

Returned(r) ==
    [done |-> TRUE, text |-> r.text, raised |-> r.raised, requests |-> r.requests]

InitText ==
    /\ t_in \in TextInputs
    /\ t_out = NotCalled
    /\ IdIdle
    /\ RateIdle
    /\ PipeIdle
    /\ MainIdle

RiaResolveText ==
    /\ t_in.source = "ria.ru"
    /\ ~t_out.done
    /\ t_out' = Returned(RiaExtractFullText(TextUrl(t_in), t_in.api, t_in.page))
    /\ UNCHANGED <<t_in, idvars, ratevars, pipevars, mainvars>>

LentaResolveText ==
    /\ t_in.source = "lenta.ru"
    /\ ~t_out.done
    /\ t_out' = Returned(LentaExtractFullText(TextUrl(t_in), t_in.page))
    /\ UNCHANGED <<t_in, idvars, ratevars, pipevars, mainvars>>

NextText == RiaResolveText \/ LentaResolveText

SpecText == InitText /\ [][NextText]_vars

----------------------------------------------------------------------------
(* Properties of the text resolution *)

\* the URL was built with one of these segments in front of its last segment
HasSeg(in, names) == \E k \in 1..(Len(in.segs) - 1) : in.segs[k] \in names

VideoSeg == <<"v", "i", "d", "e", "o">>

GallerySeg == <<"g", "a", "l", "l", "e", "r", "y">>

InfographicsSeg == <<"i", "n", "f", "o", "g", "r", "a", "p", "h", "i", "c", "s">>

PhotoSeg == <<"p", "h", "o", "t", "o">>

\* the structured endpoint answered a JSON object with a non-empty text field
ApiHasText(api) ==
    /\ api.status = "ok" /\ api.decodes
    /\ api.value.kind = "object" /\ api.value.text.ok /\ api.value.text.val # <<>>

\* C2: resolve_text never raises, whatever the URL and whatever the remote
\* servers answer.
ResolveTextNeverRaises == t_out.done => ~t_out.raised

\* C7 as stated: for every source, resolve_text on a URL with a video, gallery
\* or infographics path returns "" and sends no request.
NonArticleNeverFetchedAnySource ==
    (t_out.done /\ HasSeg(t_in, {VideoSeg, GallerySeg, InfographicsSeg}))
        => (t_out.text = <<>> /\ t_out.requests = <<>>)

\* C7 amended: resolve_text on a URL with one of the source's own non-article
\* paths (RIA: video, gallery, infographics; Lenta: video, photo) returns ""
\* and sends no request.
NonArticleNeverFetched ==
    t_out.done =>
        /\ (t_in.source = "ria.ru" /\ HasSeg(t_in, {VideoSeg, GallerySeg, InfographicsSeg}))
               => (t_out.text = <<>> /\ t_out.requests = <<>>)
        /\ (t_in.source = "lenta.ru" /\ HasSeg(t_in, {VideoSeg, PhotoSeg}))
               => (t_out.text = <<>> /\ t_out.requests = <<>>)

\* a RIA gallery URL was resolved while both servers had a text to offer
NonArticleNeverFetchedWitness ==
    /\ t_out.done
    /\ t_in.source = "ria.ru"
    /\ HasSeg(t_in, {GallerySeg})
    /\ ApiHasText(t_in.api)
    /\ t_in.page.status = "ok" /\ t_in.page.body.article__body.ok
    /\ t_out.text = <<>> /\ t_out.requests = <<>>

ApiSent == {k \in 1..Len(t_out.requests) : t_out.requests[k].target = "api"}

PageSent == {k \in 1..Len(t_out.requests) : t_out.requests[k].target = "page"}

\* C8: in one resolve_text call on the RIA source each of the two requests is
\* sent at most once, the structured one before the page fetch; a structured
\* answer with a non-empty text is returned and the page is not fetched; the
\* page is fetched only when no structured request was made or it gave no text.
StructuredBeforeFallback ==
    (t_out.done /\ t_in.source = "ria.ru") =>
        /\ Cardinality(ApiSent) <= 1
        /\ Cardinality(PageSent) <= 1
        /\ \A a \in ApiSent, p \in PageSent : a < p
        /\ (ApiSent # {} /\ ApiHasText(t_in.api))
               => (/\ t_out.text = t_in.api.value.text.val
                   /\ ~t_out.raised
                   /\ PageSent = {})
        /\ PageSent # {} => (ApiSent = {} \/ ~ApiHasText(t_in.api))

\* the structured endpoint answered {"text": "Hello"} while the page had an
\* article body: "Hello" was returned after the single structured request
StructuredBeforeFallbackWitness ==
    /\ t_out.done
    /\ t_in.source = "ria.ru"
    /\ ApiHasText(t_in.api)
    /\ t_in.page.status = "ok" /\ t_in.page.body.article__body.ok
    /\ t_out.text = Hello
    /\ t_out.requests = <<ApiRequest>>

\* C10: every request sent while resolving a text on the RIA source goes
\* through the rate-limited fetcher and carries the request timeout.
RiaRequestsAllRateLimited ==
    (t_out.done /\ t_in.source = "ria.ru") =>
        \A k \in 1..Len(t_out.requests) :
            t_out.requests[k].rate_limited /\ t_out.requests[k].timeout

\* C11: when the structured attempt gave no text and the fetch of the article
\* page ends in a network failure or a non-2xx status, resolve_text returns the
\* empty string: no text is taken from the body of a failed response.
FailedPageGivesEmptyText ==
    (/\ t_out.done
     /\ ~t_out.raised
     /\ PageSent # {}
     /\ t_in.page.status \in {"network_error", "http_error"})
        => t_out.text = <<>>

----------------------------------------------------------------------------
(* The rate limiter of _make_api_request:                                  *)
(*   @sleep_and_retry                                                      *)
(*   @limits(calls=5, period=1)                                            *)
(* limits keeps last_reset (set to the clock when the decorator is built,  *)
(* that is when the class body runs) and num_calls.  Each call computes    *)
(* period_remaining = period - (clock() - last_reset); when it is <= 0,    *)
(* num_calls is reset to 0 and last_reset to the clock; num_calls is       *)
(* incremented; above the limit RateLimitException(period_remaining) is    *)
(* raised instead of running the body.  sleep_and_retry catches it, sleeps *)
(* period_remaining and calls again.                                       *)

\* @limits(calls=5, ...)
LimitCalls == 5

\* @limits(..., period=1), in ticks
LimitPeriod == 1 * TicksPerSecond

\* the limits wrapper, entered at clock reading now with decorator state lim
LimitsWrapper(lim, now) ==
    LET period_remaining == LimitPeriod - (now - lim.last_reset)
        expired == period_remaining <= 0
        count == (IF expired THEN 0 ELSE lim.num_calls) + 1
    IN  [limiter |-> [last_reset |-> IF expired THEN now ELSE lim.last_reset,
                      num_calls |-> count],
         admitted |-> count <= LimitCalls,
         period_remaining |-> period_remaining]

\* the decorator is built at clock reading 0; the caller then makes NumCalls
\* calls one after the other
InitRate ==
    /\ r_now = 0
    /\ r_limiter = [last_reset |-> 0, num_calls |-> 0]
    /\ r_pc = "call"
    /\ r_sleep = 0
    /\ r_exec = <<>>
    /\ IdIdle
    /\ TextIdle
    /\ PipeIdle
    /\ MainIdle

\* time passes in the caller, before a call
RatePause ==
    /\ r_pc = "call"
    /\ r_now < MaxTime
    /\ r_now' = r_now + 1
    /\ UNCHANGED <<r_limiter, r_pc, r_sleep, r_exec, idvars, textvars, pipevars, mainvars>>

\* one pass of the sleep_and_retry loop: the limits wrapper either runs the
\* body of _make_api_request or raises RateLimitException
RateCall ==
    /\ r_pc = "call"
    /\ Len(r_exec) < NumCalls
    /\ LET w == LimitsWrapper(r_limiter, r_now)
       IN  /\ r_limiter' = w.limiter
           /\ IF w.admitted
              THEN /\ r_exec' = Append(r_exec, r_now)
                   /\ UNCHANGED <<r_pc, r_sleep>>
              ELSE /\ r_pc' = "sleeping"
                   /\ r_sleep' = w.period_remaining
                   /\ UNCHANGED r_exec
    /\ UNCHANGED <<r_now, idvars, textvars, pipevars, mainvars>>

\* time.sleep(exception.period_remaining), which may overrun by a tick
RateSleep ==
    /\ r_pc = "sleeping"
    /\ \E late \in {0, 1} : r_now' = r_now + r_sleep + late
    /\ r_pc' = "call"
    /\ r_sleep' = 0
    /\ UNCHANGED <<r_limiter, r_exec, idvars, textvars, pipevars, mainvars>>

NextRate == RatePause \/ RateCall \/ RateSleep

SpecRate == InitRate /\ [][NextRate]_vars

\* C9: ten consecutive calls of the rate-limited fetcher take at least one
\* second: the tenth body runs a full period after the first.
TenCallsTakeOneSecond ==
    Len(r_exec) >= 10 => r_exec[10] - r_exec[1] >= LimitPeriod

----------------------------------------------------------------------------
(* Configuration handed to the parser: ConfigLoader.get_source_config      *)

Categories == <<"politics", "world", "society", "economy">>

\* rss_channels in configuration order: [category, max_news]
RssChannels ==
    [k \in 1..NumChannels |->
        [category |-> Categories[((k - 1) % Len(Categories)) + 1],
         max_news |-> IF k = 1 THEN 2 ELSE 1]]

\* datetime.now(self.timezone) - timedelta(hours=lookback_hours), in hours
TimeThreshold == NowHour - LookbackHours

----------------------------------------------------------------------------
(* BaseParser._get_news_template and dict.update *)

NewsTemplate ==
    [source |-> "", id |-> <<>>, title |-> <<>>, url |-> <<>>, pub_date |-> "",
     categories |-> <<>>, raw_content |-> <<>>]

\* [self.source_config['rss_channels'][channel_name]['category']]
ChannelCategoriesLeftEmpty(category) == <<>>

ChannelCategories(category) == <<category>>

Update(d, upd) ==
    [k \in DOMAIN d \cup DOMAIN upd |-> IF k \in DOMAIN upd THEN upd[k] ELSE d[k]]

NoRecord == [ok |-> FALSE, rec |-> NewsTemplate]

----------------------------------------------------------------------------
(* Feeds: what the remote server serves for a channel *)

Min(a, b) == IF a <= b THEN a ELSE b

FeedUrls(source) ==
    IF source = "ria.ru"
    THEN { Https \o RiaHost \o <<"/">>
               \o <<"t", "-", "1", "2", "3", "4", "5", "6", ".", "h", "t", "m", "l">>,
           Https \o RiaHost \o <<"/", "a", "b", "o", "u", "t">> }
    ELSE { Https \o LentaHost \o <<"/", "n", "e", "w", "s", "/">>
               \o <<"c", "o", "f", "f", "e", "e", "/">>,
           Https \o LentaHost \o <<"/">> }

Title == <<"T">>

\* a feed entry: its link and title when present, its publication hour (UTC)
\* when the date is present and well-formed
FeedEntries(source) ==
    { [link |-> Some(u), title |-> Some(Title), published |-> [ok |-> TRUE, val |-> d]] :
          u \in FeedUrls(source), d \in {TimeThreshold - 1, TimeThreshold} }
    \cup
    { [link |-> IF broken = "link" THEN None ELSE Some(u),
       title |-> IF broken = "title" THEN None ELSE Some(Title),
       published |-> IF broken = "date" THEN [ok |-> FALSE, val |-> 0]
                     ELSE [ok |-> TRUE, val |-> TimeThreshold]] :
          broken \in {"link", "title", "date"},
          u \in {CHOOSE v \in FeedUrls(source) : TRUE} }

\* outcome of fetching and parsing the feed of a channel
FeedStatuses(source) ==
    IF source = "ria.ru" THEN {"ok", "bozo", "exception"}
    ELSE {"ok", "network_error", "http_error"}

\* answers of the structured endpoint and of the article page during a run
FeedApiResponses ==
    { [status |-> "network_error", decodes |-> FALSE, value |-> PyNone],
      [status |-> "ok", decodes |-> TRUE,
       value |-> [kind |-> "object", truthy |-> TRUE, text |-> Some(Hello)]],
      [status |-> "ok", decodes |-> TRUE,
       value |-> [kind |-> "array", truthy |-> TRUE, text |-> None]] }

HiDiv == [ok |-> TRUE, val |-> << <<" ", "H", "i", " ">> >>]

FeedPageResponses ==
    { [status |-> "network_error", body |-> EmptyBody],
      [status |-> "ok", body |-> [article__body |-> HiDiv, article__text |-> HiDiv,
                                  topic_body__content |-> HiDiv]] }

\* UTC offsets of the local time zone of the machine
LocalOffsets == {0, 1}

----------------------------------------------------------------------------
(* RiaParser._parse_rss_item *)

\* datetime.fromtimestamp(time.mktime(entry.published_parsed)): mktime reads
\* the UTC tuple of feedparser as local time
RiaPubDate(published, tz) == published - tz

\* self._extract_news_id(entry.link) or entry.link
RiaIdOrLink(link) ==
    LET extracted == RiaExtractNewsId(link)
    IN  IF extracted.ok /\ extracted.val # <<>> THEN extracted.val ELSE link

\* the record, or NoRecord for None: missing link or title, an exception on
\* the date, or an exception leaving _extract_full_text
RiaParseRssItem(entry, category, tz, api, page) ==
    IF ~(entry.link.ok /\ entry.title.ok) THEN NoRecord
    ELSE IF ~entry.published.ok THEN NoRecord
    ELSE LET pub_date == RiaPubDate(entry.published.val, tz)
             news_data == Update(NewsTemplate,
                 [source |-> "ria.ru",
                  id |-> RiaIdOrLink(entry.link.val),
                  title |-> entry.title.val,
                  url |-> entry.link.val,
                  pub_date |-> pub_date,
                  categories |-> ChannelCategories(category),
                  description |-> <<>>,
                  raw_content |-> <<>>])
             full == RiaExtractFullText(entry.link.val, api, page)
         IN  IF pub_date >= TimeThreshold
             THEN IF full.raised THEN NoRecord
                  ELSE [ok |-> TRUE, rec |-> [news_data EXCEPT !.raw_content = full.text]]
             ELSE [ok |-> TRUE, rec |-> news_data]

\* what _parse_rss_item returns for every entry, channel category, time zone
\* and pair of answers of a run, computed once
RiaParsedItems ==
    [entry \in FeedEntries("ria.ru"),
     category \in {RssChannels[k].category : k \in 1..NumChannels},
     tz \in LocalOffsets, api \in FeedApiResponses, page \in FeedPageResponses |->
        RiaParseRssItem(entry, category, tz, api, page)]

\* body of the for loop over feed.entries in fetch_news
RiaLoopBody(items, entry, category, tz, api, page) ==
    LET news_item == RiaParsedItems[entry, category, tz, api, page]
    IN  IF news_item.ok THEN Append(items, news_item.rec) ELSE items

----------------------------------------------------------------------------
(* LentaParser._parse_rss_item *)

\* datetime.strptime(item.pubDate.text, "... %z").astimezone(self.timezone)
LentaPubDate(published) == published

LentaParseRssItemNoTitleCheck(entry, category) ==
    IF ~entry.published.ok THEN NoRecord
    ELSE IF ~entry.link.ok THEN NoRecord
    ELSE [ok |-> TRUE,
          rec |-> Update(NewsTemplate,
              [source |-> "lenta.ru",
               id |-> LentaExtractNewsId(Strip(entry.link.val)).val,
               title |-> Strip(entry.title.val),
               url |-> Strip(entry.link.val),
               pub_date |-> LentaPubDate(entry.published.val),
               categories |-> ChannelCategories(category)])]

LentaParseRssItem(entry, category) ==
    IF ~entry.published.ok THEN NoRecord
    ELSE IF ~entry.link.ok THEN NoRecord
    ELSE IF ~entry.title.ok THEN NoRecord
    ELSE [ok |-> TRUE,
          rec |-> Update(NewsTemplate,
              [source |-> "lenta.ru",
               id |-> LentaExtractNewsId(Strip(entry.link.val)).val,
               title |-> Strip(entry.title.val),
               url |-> Strip(entry.link.val),
               pub_date |-> LentaPubDate(entry.published.val),
               categories |-> ChannelCategories(category)])]

\* the record the loop body appends for an entry, NoRecord when it appends
\* none: _parse_rss_item returned None or the item is older than the threshold
LentaLoopItem(entry, category, page) ==
    LET news_item == LentaParseRssItem(entry, category)
    IN  IF news_item.ok /\ news_item.rec.pub_date >= TimeThreshold
        THEN [ok |-> TRUE,
              rec |-> [news_item.rec EXCEPT
                  !.raw_content = LentaExtractFullText(news_item.rec.url, page).text]]
        ELSE NoRecord

\* LentaLoopItem for every entry, channel category and page answer of a run,
\* computed once
LentaLoopItems ==
    [entry \in FeedEntries("lenta.ru"),
     category \in {RssChannels[k].category : k \in 1..NumChannels},
     page \in FeedPageResponses |-> LentaLoopItem(entry, category, page)]

\* body of the for loop over soup.find_all('item') in fetch_news
LentaLoopBody(items, entry, category, page) ==
    LET news_item == LentaLoopItems[entry, category, page]
    IN  IF news_item.ok THEN Append(items, news_item.rec) ELSE items

----------------------------------------------------------------------------
(* fetch_news: the loop over the channels *)

\* the except clause (and the bozo branch) of the channel loop: log, continue
OnChannelErrorAbort(ch, items) == [ch |-> ch, pc |-> "returned", news_items |-> <<>>]

OnChannelError(ch, items) == [ch |-> ch + 1, pc |-> "channel", news_items |-> items]

\* number of entries the slice [:max_news] keeps
SliceLenWholeFeed(feed_len, max_news) == feed_len

SliceLen(feed_len, max_news) == Min(feed_len, max_news)

InitPipe ==
    /\ p_source \in {"lenta.ru", "ria.ru"}
    /\ p_tz \in LocalOffsets
    /\ p_pc = "channel"
    /\ p_ch = 1
    /\ p_hist = <<>>
    /\ p_entry = [seen |-> FALSE, entry |-> NoEntry, emitted |-> FALSE]
    /\ news_items = <<>>
    /\ IdIdle
    /\ TextIdle
    /\ RateIdle
    /\ MainIdle

\* the feed of the next channel is fetched and parsed
FetchChannel ==
    /\ p_pc = "channel"
    /\ p_ch <= NumChannels
    /\ \E status \in FeedStatuses(p_source), n \in 0..MaxFeedLen :
          IF status # "ok"
          THEN /\ n = 0
               /\ LET nx == OnChannelError(p_ch, news_items)
                  IN  /\ p_ch' = nx.ch
                      /\ p_pc' = nx.pc
                      /\ news_items' = nx.news_items
               /\ p_hist' = Append(p_hist, [status |-> status, feed_len |-> 0, consumed |-> 0,
                                            malformed |-> 0, emitted |-> 0])
          ELSE /\ p_hist' = Append(p_hist, [status |-> "ok", feed_len |-> n, consumed |-> 0,
                                            malformed |-> 0, emitted |-> 0])
               /\ IF SliceLen(n, RssChannels[p_ch].max_news) = 0
                  THEN p_ch' = p_ch + 1 /\ p_pc' = "channel"
                  ELSE p_ch' = p_ch /\ p_pc' = "entries"
               /\ UNCHANGED news_items
    /\ UNCHANGED <<p_source, p_tz, p_entry, idvars, textvars, ratevars, mainvars>>

\* the entry has a link, a title and a date that parses
WellFormed(entry) == entry.link.ok /\ entry.title.ok /\ entry.published.ok

\* bookkeeping after one pass of the loop over the entries of the channel
AfterEntry(entry, items) ==
    LET h == p_hist[Len(p_hist)]
        consumed == h.consumed + 1
        last == consumed = SliceLen(h.feed_len, RssChannels[p_ch].max_news)
    IN  /\ news_items' = items
        /\ p_hist' = [p_hist EXCEPT ![Len(p_hist)] =
                         [h EXCEPT !.consumed = consumed,
                                   !.malformed = h.malformed + IF WellFormed(entry) THEN 0 ELSE 1,
                                   !.emitted = h.emitted + Len(items) - Len(news_items)]]
        /\ p_entry' = [seen |-> TRUE, entry |-> entry,
                       emitted |-> Len(items) > Len(news_items)]
        /\ p_ch' = IF last THEN p_ch + 1 ELSE p_ch
        /\ p_pc' = IF last THEN "channel" ELSE "entries"

RiaProcessEntry ==
    /\ p_pc = "entries"
    /\ p_source = "ria.ru"
    /\ \E entry \in FeedEntries(p_source), api \in FeedApiResponses,
          page \in FeedPageResponses :
          AfterEntry(entry, RiaLoopBody(news_items, entry, RssChannels[p_ch].category,
                                        p_tz, api, page))
    /\ UNCHANGED <<p_source, p_tz, idvars, textvars, ratevars, mainvars>>

LentaProcessEntry ==
    /\ p_pc = "entries"
    /\ p_source = "lenta.ru"
    /\ \E entry \in FeedEntries(p_source), page \in FeedPageResponses :
          AfterEntry(entry, LentaLoopBody(news_items, entry,
                                          RssChannels[p_ch].category, page))
    /\ UNCHANGED <<p_source, p_tz, idvars, textvars, ratevars, mainvars>>

\* return news_items
ReturnNews ==
    /\ p_pc = "channel"
    /\ p_ch = NumChannels + 1
    /\ p_pc' = "returned"
    /\ UNCHANGED <<p_source, p_tz, p_ch, p_hist, p_entry, news_items,
                   idvars, textvars, ratevars, mainvars>>

Next == FetchChannel \/ RiaProcessEntry \/ LentaProcessEntry \/ ReturnNews

Spec == InitPipe /\ [][Next]_vars

----------------------------------------------------------------------------
(* Properties of fetch_news *)

\* the publication hour the parser computes for the entry
EntryPubDate(entry) ==
    IF p_source = "ria.ru" THEN RiaPubDate(entry.published.val, p_tz)
    ELSE LentaPubDate(entry.published.val)

\* C1: for every source, an entry that parses but is older than the cutoff is
\* still appended to the result, with its metadata and raw_content = "".
StaleEntriesStillEmitted ==
    (/\ p_entry.seen
     /\ WellFormed(p_entry.entry)
     /\ EntryPubDate(p_entry.entry) < TimeThreshold)
        => /\ p_entry.emitted
           /\ news_items[Len(news_items)].url = p_entry.entry.link.val
           /\ news_items[Len(news_items)].raw_content = <<>>

RECURSIVE SumEmitted(_)
SumEmitted(hist) ==
    IF hist = <<>> THEN 0 ELSE Head(hist).emitted + SumEmitted(Tail(hist))

\* C3: a channel whose feed fails is skipped and nothing else is lost: the
\* result holds every record appended for the other channels, and fetch_news
\* returns only after every configured channel has been reached.
ChannelFailureIsolated ==
    /\ Len(news_items) = SumEmitted(p_hist)
    /\ p_pc = "returned" => Len(p_hist) = NumChannels

\* fetch_news has returned records although the feed of a channel failed
ChannelFailureIsolatedWitness ==
    /\ p_pc = "returned"
    /\ \E k \in 1..Len(p_hist) : p_hist[k].status # "ok"
    /\ \E k \in 1..Len(p_hist) : p_hist[k].status = "ok" /\ p_hist[k].emitted > 0
    /\ Len(news_items) > 0

\* C4: the id of every record of the result is a non-empty string.
EmittedIdsNonEmpty ==
    \A k \in 1..Len(news_items) : news_items[k].id # <<>>

\* the channel a record of the result was built for, by its category
CategoryChannel(c) == CHOOSE k \in 1..NumChannels : RssChannels[k].category = c

RecordChannel(rec) == CategoryChannel(rec.categories[1])

\* the records of the result that were built for channel k
ChannelRecords(k) == {j \in 1..Len(news_items) : RecordChannel(news_items[j]) = k}

\* C12: fetch_news takes from each channel at most the first max_news entries
\* of its feed, one after the other, and returns the records of the channels
\* one channel after the other in configuration order: no channel has more
\* than max_news records, and a record once appended keeps its place.
FirstMaxNewsInOrder ==
    /\ [](\A k \in 1..Len(p_hist) :
            /\ p_hist[k].consumed <= RssChannels[k].max_news
            /\ p_hist[k].consumed <= p_hist[k].feed_len
            /\ p_hist[k].emitted <= p_hist[k].consumed
            /\ Cardinality(ChannelRecords(k)) = p_hist[k].emitted)
    /\ [](\A i, j \in 1..Len(news_items) :
            i < j => RecordChannel(news_items[i]) <= RecordChannel(news_items[j]))
    /\ [][/\ Len(news_items') \in {Len(news_items), Len(news_items) + 1}
          /\ SubSeq(news_items', 1, Len(news_items)) = news_items
          /\ \A k \in 1..Len(p_hist) :
                 p_hist'[k].consumed \in {p_hist[k].consumed, p_hist[k].consumed + 1}]_vars

\* fetch_news returned after a first channel whose feed had more entries than
\* max_news: two were taken and emitted, then one of the second channel
FirstMaxNewsInOrderWitness ==
    /\ p_pc = "returned"
    /\ p_hist[1].feed_len > RssChannels[1].max_news
    /\ p_hist[1].consumed = RssChannels[1].max_news
    /\ p_hist[1].emitted = RssChannels[1].max_news
    /\ p_hist[2].emitted = 1
    /\ Len(news_items) = RssChannels[1].max_news + 1

\* C13: an entry without link or title, or with a malformed date, is dropped
\* without raising and takes nothing else with it: the pass over it appends
\* no record, counts as one consumed entry and leaves the loop over the
\* entries of the channel running, so every channel emits at most its
\* consumed entries less the malformed ones.
MalformedEntryDropsOnlyItself ==
    /\ [][(p_pc = "entries" /\ ~WellFormed(p_entry'.entry)) =>
             LET k == Len(p_hist)
             IN  /\ news_items' = news_items
                 /\ Len(p_hist') = k
                 /\ p_hist'[k].status = "ok"
                 /\ p_hist'[k].consumed = p_hist[k].consumed + 1
                 /\ p_hist'[k].emitted = p_hist[k].emitted
                 /\ p_hist'[k].consumed < Min(p_hist[k].feed_len, RssChannels[k].max_news)
                        => (p_pc' = "entries" /\ p_ch' = p_ch)]_vars
    /\ [](\A k \in 1..Len(p_hist) :
            p_hist[k].emitted <= p_hist[k].consumed - p_hist[k].malformed)
    /\ [](p_entry.seen /\ ~WellFormed(p_entry.entry) => ~p_entry.emitted)

\* the first entry of a channel was malformed and dropped, the second one was
\* normalized and emitted
MalformedEntryDropsOnlyItselfWitness ==
    /\ p_hist # <<>>
    /\ p_hist[Len(p_hist)].consumed = 2
    /\ p_hist[Len(p_hist)].malformed = 1
    /\ p_hist[Len(p_hist)].emitted = 1
    /\ p_entry.seen /\ WellFormed(p_entry.entry) /\ p_entry.emitted

\* the channel whose pass appended the j-th record of the result
SourceChannel(j) ==
    CHOOSE k \in 1..Len(p_hist) :
        /\ SumEmitted(SubSeq(p_hist, 1, k - 1)) < j
        /\ j <= SumEmitted(SubSeq(p_hist, 1, k))

CanonicalFields ==
    {"source", "id", "title", "url", "pub_date", "categories", "raw_content"}

\* C14: every record of the result has the seven canonical fields, filled by
\* the parser of its source, and its categories field is the one-element list
\* holding the configured category of the channel the entry came from.
RecordsHaveCanonicalFields ==
    \A j \in 1..Len(news_items) :
        /\ CanonicalFields \subseteq DOMAIN news_items[j]
        /\ news_items[j].source = p_source
        /\ news_items[j].url # <<>>
        /\ Len(news_items[j].categories) = 1
        /\ news_items[j].categories[1] = RssChannels[SourceChannel(j)].category

\* fetch_news returned records of two channels with different categories
RecordsHaveCanonicalFieldsWitness ==
    /\ p_pc = "returned"
    /\ Len(news_items) >= 2
    /\ SourceChannel(1) = 1
    /\ SourceChannel(Len(news_items)) = 2
    /\ news_items[1].categories # news_items[Len(news_items)].categories

----------------------------------------------------------------------------
(* main: the loop over the parsers, run_parser and the run methods *)

\* the parsers list of main.py (Lenta only) and of src/main.py (Lenta, RIA)
ParserLists == { <<"lenta.ru">>, <<"lenta.ru", "ria.ru">> }

\* output_dir / f"{raw_prefix}_{timestamp}.json"
OutputPath(source) == <<"raw_data_dir", source, ".json">>

\* BaseParser._save_raw_data: the path of the file written, or the exception
\* of mkdir, open or json.dump raised again
SaveRawData(source, data, written) ==
    IF written THEN [raised |-> FALSE, output_path |-> Some(OutputPath(source)), saved |-> TRUE]
    ELSE [raised |-> TRUE, output_path |-> None, saved |-> FALSE]

\* BaseParser.run, which RiaParser.run calls through super()
BaseRun(source, news, written) == SaveRawData(source, news, written)

\* LentaParser.run: RuntimeError on an empty list, before anything is saved
LentaRunSavesEmpty(source, news, written) == SaveRawData(source, news, written)

LentaRun(source, news, written) ==
    IF news = <<>> THEN [raised |-> TRUE, output_path |-> None, saved |-> FALSE]
    ELSE SaveRawData(source, news, written)

ParserRun(source, news, written) ==
    IF source = "lenta.ru" THEN LentaRun(source, news, written)
    ELSE BaseRun(source, news, written)

\* run_parser: (True, output_path), or (False, None) on an Exception
RunParser(run) ==
    IF run.raised THEN [success |-> FALSE, output_path |-> None]
    ELSE [success |-> TRUE, output_path |-> run.output_path]

\* results[parser.source_name] = {'success': ..., 'output_path': ...}
SetResult(results, source, outcome) ==
    [k \in DOMAIN results \cup {source} |-> IF k = source THEN outcome ELSE results[k]]

InitMain ==
    /\ m_parsers \in ParserLists
    /\ m_pc = "loop"
    /\ m_idx = 1
    /\ m_started = <<>>
    /\ m_results = <<>>
    /\ m_files = {}
    /\ p_source = "off"
    /\ p_tz \in LocalOffsets
    /\ p_pc = "off"
    /\ p_ch = 0
    /\ p_hist = <<>>
    /\ p_entry = [seen |-> FALSE, entry |-> NoEntry, emitted |-> FALSE]
    /\ news_items = <<>>
    /\ IdIdle
    /\ TextIdle
    /\ RateIdle

\* the records the entry loop of fetch_news can append for channel k
RecordsOfChannel(source, tz, k) ==
    IF source = "ria.ru"
    THEN { RiaParsedItems[entry, RssChannels[k].category, tz, api, page].rec :
               <<entry, api, page>> \in
                   { x \in FeedEntries("ria.ru") \X FeedApiResponses \X FeedPageResponses :
                       RiaParsedItems[x[1], RssChannels[k].category, tz, x[2], x[3]].ok } }
    ELSE { LentaLoopItems[entry, RssChannels[k].category, page].rec :
               <<entry, page>> \in
                   { x \in FeedEntries("lenta.ru") \X FeedPageResponses :
                       LentaLoopItems[x[1], RssChannels[k].category, x[2]].ok } }

\* what the pass over channel k can add to news_items: nothing when the feed
\* fails, otherwise a record or none for each of its first max_news entries
ChannelResults(source, tz, k) ==
    UNION { [1..n -> RecordsOfChannel(source, tz, k)] : n \in 0..RssChannels[k].max_news }

\* the lists fetch_news can return: the channels' records, channel by channel
RECURSIVE ResultsFrom(_, _, _)
ResultsFrom(source, tz, k) ==
    IF k > NumChannels THEN { <<>> }
    ELSE { a \o b : a \in ChannelResults(source, tz, k), b \in ResultsFrom(source, tz, k + 1) }

FetchResults(source, tz) == ResultsFrom(source, tz, 1)

\* the next parser of the list is handed to run_parser: run calls fetch_news,
\* which returns its list
MainStartParser ==
    /\ m_pc = "loop"
    /\ m_idx <= Len(m_parsers)
    /\ m_pc' = "run"
    /\ m_started' = Append(m_started, m_parsers[m_idx])
    /\ p_source' = m_parsers[m_idx]
    /\ p_pc' = "returned"
    /\ news_items' \in FetchResults(m_parsers[m_idx], p_tz)
    /\ UNCHANGED <<p_tz, p_ch, p_hist, p_entry, m_parsers, m_idx, m_results, m_files,
                   idvars, textvars, ratevars>>

\* fetch_news has returned: the rest of run, run_parser and the results entry;
\* the locals of fetch_news are gone
MainParserDone ==
    /\ m_pc = "run"
    /\ p_pc = "returned"
    /\ \E written \in BOOLEAN :
          LET source == m_parsers[m_idx]
              run == ParserRun(source, news_items, written)
          IN  /\ m_results' = SetResult(m_results, source, RunParser(run))
              /\ m_files' = IF run.saved THEN m_files \cup {source} ELSE m_files
    /\ m_idx' = m_idx + 1
    /\ m_pc' = "loop"
    /\ p_source' = "off"
    /\ p_pc' = "off"
    /\ news_items' = <<>>
    /\ UNCHANGED <<p_tz, p_ch, p_hist, p_entry, m_parsers, m_started,
                   idvars, textvars, ratevars>>

\* the loop over the parsers is over
MainFinish ==
    /\ m_pc = "loop"
    /\ m_idx = Len(m_parsers) + 1
    /\ m_pc' = "done"
    /\ UNCHANGED <<m_parsers, m_idx, m_started, m_results, m_files,
                   pipevars, idvars, textvars, ratevars>>

NextMain == MainStartParser \/ MainParserDone \/ MainFinish

SpecMain == InitMain /\ [][NextMain]_vars

\* C15: main runs every parser of the list once, in list order; a run that
\* raises, as the Lenta run does on zero records before any file is written,
\* is recorded as success = False without an output path; the loop goes on to
\* the next parser and the results end with one entry for each parser.
MainRunsEveryParser ==
    /\ [](m_started = SubSeq(m_parsers, 1, Len(m_started)))
    /\ [](\A s \in DOMAIN m_results :
            /\ m_results[s].success <=> s \in m_files
            /\ m_results[s].success => m_results[s].output_path.ok
            /\ ~m_results[s].success => m_results[s].output_path = None)
    /\ [](m_pc = "done" =>
            /\ m_started = m_parsers
            /\ DOMAIN m_results = {m_parsers[k] : k \in 1..Len(m_parsers)})
    /\ [][(m_pc = "run" /\ m_pc' = "loop") =>
            /\ m_idx' = m_idx + 1
            /\ DOMAIN m_results' = DOMAIN m_results \cup {m_parsers[m_idx]}
            /\ \A s \in DOMAIN m_results : m_results'[s] = m_results[s]
            /\ (p_source = "lenta.ru" /\ news_items = <<>>) =>
                   /\ m_results'[p_source] = [success |-> FALSE, output_path |-> None]
                   /\ m_files' = m_files]_vars

\* the Lenta run raised on zero records and wrote no file, the RIA parser was
\* run all the same and saved its records: both have their entry
MainRunsEveryParserWitness ==
    /\ m_pc = "done"
    /\ m_parsers = <<"lenta.ru", "ria.ru">>
    /\ m_results["lenta.ru"] = [success |-> FALSE, output_path |-> None]
    /\ m_results["ria.ru"].success
    /\ m_files = {"ria.ru"}

====
